---------------------------- MODULE Spec2Model ----------------------------
(***************************************************************************)
(* A model of SpACE's ingestion-and-alignment pipeline                     *)
(* (src/space_data_ops.py): file_to_data_object, reindex,                  *)
(* find_common_range, truncate, find_max_res, align, combine and           *)
(* linear_normalize.                                                       *)
(*                                                                         *)
(* A 'pairs' dataframe that has been through reindex is a sequence of      *)
(* rows <<wavelength, value>> in index order.  Wavelengths are integers    *)
(* (they are only ever compared).  Values are exact rationals <<n, d>>     *)
(* in lowest terms with d > 0, because interpolation and min-max scaling   *)
(* divide; the missing value NaN is <<0, 0>>.  Floating-point rounding is  *)
(* not modelled.                                                           *)
(***************************************************************************)
EXTENDS Integers, Sequences, FiniteSets, TLC

\* ------------------------------------------------------------------ bounds
MaxRecs  == 2   \* data objects in a collection
MaxPts   == 2   \* numeric-pair lines of one file
MaxCoord == 4   \* wavelengths are 1..MaxCoord
MaxVal   == 1   \* parsed values are 0..MaxVal
MaxSteps == 2   \* pipeline operations the driver performs on one collection
MaxRows  == 8   \* longest frame the driver goes on working with
MaxFiles == 2   \* files in a list handed to the parser
MaxTok   == 2   \* the numeric tokens of pair lines are "1".."MaxTok"

Coords == 1..MaxCoord
Vals   == 0..MaxVal

VARIABLES
    file_list,      \* the files handed to file_to_data_object, as read_csv reads them
    parsed,         \* what file_to_data_object returned: [objects, message]
    data_objects,   \* the collection: data_objects[i] is record i's 'pairs' frame
    pre,            \* the collection as it was before the last operation
    last,           \* the last operation performed and its arguments
    common_range,   \* what find_common_range last returned
    max_res,        \* what find_max_res last returned (a 0-based index), -1 before it ran
    data_block,     \* what combine last returned
    raised,         \* the exception that ended the run, "" when none
    steps           \* operations performed so far

vars == <<file_list, parsed, data_objects, pre, last, common_range, max_res, data_block, raised, steps>>

\* ------------------------------------------------------- exact arithmetic
NaN == <<0, 0>>

IsNaN(v) == v[2] = 0

Abs(n) == IF n < 0 THEN -n ELSE n

RECURSIVE GCD(_, _)
GCD(a, b) == IF b = 0 THEN a ELSE GCD(b, a % b)

\* the rational n/d (d # 0) in lowest terms with a positive denominator
Frac(n, d) ==
    LET s == IF d < 0 THEN -1 ELSE 1
        g == GCD(Abs(n), Abs(d))
    IN  IF n = 0 THEN <<0, 1>> ELSE <<(s * n) \div g, (s * d) \div g>>

Num(k) == <<k, 1>>

FAdd(a, b) == IF IsNaN(a) \/ IsNaN(b) THEN NaN
              ELSE Frac(a[1] * b[2] + b[1] * a[2], a[2] * b[2])
FSub(a, b) == IF IsNaN(a) \/ IsNaN(b) THEN NaN
              ELSE Frac(a[1] * b[2] - b[1] * a[2], a[2] * b[2])
FMul(a, b) == IF IsNaN(a) \/ IsNaN(b) THEN NaN
              ELSE Frac(a[1] * b[1], a[2] * b[2])
\* a / b for b # 0
FDiv(a, b) == IF IsNaN(a) \/ IsNaN(b) THEN NaN
              ELSE Frac(a[1] * b[2], a[2] * b[1])
\* a < b; any comparison with NaN is false
FLess(a, b) == ~IsNaN(a) /\ ~IsNaN(b) /\ a[1] * b[2] < b[1] * a[2]

\* ------------------------------------------------------------------ frames
Index(df)  == [i \in 1..Len(df) |-> df[i][1]]
Values(df) == [i \in 1..Len(df) |-> df[i][2]]

SetMin(S) == CHOOSE m \in S : \A x \in S : m <= x
SetMax(S) == CHOOSE m \in S : \A x \in S : x <= m

Range(s) == {s[i] : i \in 1..Len(s)}

IsSorted(s) == \A i \in 1..(Len(s) - 1) : s[i] <= s[i + 1]

RECURSIVE SeqsUpTo(_, _)
\* the sequences over S of length 0..n
SeqsUpTo(S, n) ==
    IF n = 0 THEN {<<>>}
    ELSE LET shorter == SeqsUpTo(S, n - 1)
         IN  shorter \cup {Append(s, x) : s \in {t \in shorter : Len(t) = n - 1}, x \in S}

\* the frames reindex produces from a parsed file: at least one row, the
\* index ascending (a repeated wavelength stays repeated), finite values
NormalizedFrames ==
    {df \in SeqsUpTo(Coords \X {Num(v) : v \in Vals}, MaxPts) :
        Len(df) >= 1 /\ IsSorted(Index(df))}

NoRange    == [kind |-> "none",  min |-> 0, max |-> 0]
UnsetRange == [kind |-> "unset", min |-> 0, max |-> 0]
NoBlock    == [columns |-> <<>>, rows |-> <<>>]
NoOp       == [op |-> "none", min |-> 0, max |-> 0, align_to |-> 0]


\* ------------------------------------------------------ file_to_data_object
\* A file is modelled as read_csv(sep=":", names=columns) returns it: one row
\* per line, the line's colon-separated fields in the five columns.  The
\* first field is kept as its tab-separated tokens (toks); an empty or absent
\* field reads as NaN, written NA.
NA == ""

Row(toks, value, o1, o2, o3) ==
    [toks |-> toks, value |-> value, overflow |-> o1, overflow2 |-> o2, overflow3 |-> o3]

RECURSIVE JoinTabs(_)
\* the text of a first field: its tokens with a tab between them
JoinTabs(toks) ==
    IF Len(toks) = 1 THEN toks[1] ELSE toks[1] \o "\t" \o JoinTabs(Tail(toks))

Descriptor(row) == JoinTabs(row.toks)

Digits == <<"0", "1", "2", "3", "4", "5", "6", "7", "8", "9">>

\* float(val) succeeds; the tokens of the model are single digits or words
IsFloat(tok) == \E k \in 1..Len(Digits) : Digits[k] = tok

\* float(val)
FloatOf(tok) == (CHOOSE k \in 1..Len(Digits) : Digits[k] = tok) - 1

\* "\t" in value and len(value.split("\t")) == 2
IsCandidate(row) == Len(row.toks) = 2

\* "Description" in value, for the first fields the model draws
ContainsDescription(text) == text = "Description"

\* the 0-based labels of the rows whose first field is text
RowsEqual(data, text) == {i - 1 : i \in {j \in 1..Len(data) : Descriptor(data[j]) = text}}

RECURSIVE ScanRows(_, _, _, _, _)
\* the loop over first_col from row r (1-based) on; it ends in the state of
\* the loop variables, or at the first candidate line with a token float()
\* rejects
ScanRows(data, r, pairs, pair_index, desc_index) ==
    IF r > Len(data)
    THEN [status |-> "scanned", pairs |-> pairs, pair_index |-> pair_index,
          desc_index |-> desc_index, line |-> ""]
    ELSE IF IsCandidate(data[r])
    THEN IF \E k \in 1..2 : ~IsFloat(data[r].toks[k])
         THEN [status |-> "malformed", pairs |-> pairs, pair_index |-> pair_index,
               desc_index |-> desc_index, line |-> Descriptor(data[r])]
         ELSE ScanRows(data, r + 1, Append(pairs, data[r].toks),
                       IF pair_index = 0
                       THEN SetMin(RowsEqual(data, Descriptor(data[r])))
                       ELSE pair_index,
                       desc_index)
    ELSE IF ContainsDescription(Descriptor(data[r]))
    THEN ScanRows(data, r + 1, pairs, pair_index, SetMin(RowsEqual(data, "Description")))
    ELSE ScanRows(data, r + 1, pairs, pair_index, desc_index)

\* data.head(n)
Head_(data, n) == SubSeq(data, 1, IF n < Len(data) THEN n ELSE Len(data))

\* the xy_pairs frame: the unit labels as column names, the tokens as floats
XYPairs(descriptive_data, x_units, y_units, pairs) ==
    [columns |-> <<descriptive_data[x_units + 1].value, descriptive_data[y_units + 1].value>>,
     rows    |-> [i \in 1..Len(pairs) |-> <<FloatOf(pairs[i][1]), FloatOf(pairs[i][2])>>]]

\* a frame of descriptive rows restricted to the columns cols
Restrict(rows, cols) ==
    [i \in 1..Len(rows) |-> [c \in cols |-> IF c = "descriptor" THEN Descriptor(rows[i])
                                            ELSE rows[i][c]]]

\* dropna(axis=1): the columns without a NaN in any row
DropNa(rows) ==
    Restrict(rows, {"descriptor"} \cup
        {c \in {"value", "overflow", "overflow2", "overflow3"} :
            \A i \in 1..Len(rows) : rows[i][c] # NA})

\* drop(['overflow', 'overflow2', 'overflow3'], axis=1) of the copy whose
\* 'value' at desc_index has been replaced
DropOverflow(rows, desc_index, value) ==
    Restrict([rows EXCEPT ![desc_index + 1].value = value], {"descriptor", "value"})

\* Description processing: the four branches on the overflow fields of the
\* row at desc_index
DescriptionProcessing(descriptive_data, desc_index) ==
    LET row == descriptive_data[desc_index + 1]
    IN  IF row.overflow = NA
        THEN DropNa(descriptive_data)
        ELSE IF row.overflow2 = NA
        THEN DropOverflow(descriptive_data, desc_index,
                          row.value \o ": " \o row.overflow)
        ELSE IF row.overflow3 = NA
        THEN DropOverflow(descriptive_data, desc_index,
                          row.value \o ": " \o row.overflow \o ": " \o row.overflow2)
        ELSE DropOverflow(descriptive_data, desc_index,
                          row.value \o ": " \o row.overflow \o ": " \o row.overflow2
                              \o ": " \o row.overflow3)

MalformedMessage(item, line) ==
    item \o " contains an invalid or missing value at numerical pair: " \o line

MissingMessage(item) == "Numerical coordinate pairs could not found for " \o item

\* one pass of the loop of file_to_data_object, for the file item with the
\* rows data: a DataObject, an error return, or an exception
ProcessItem(item, data) ==
    LET scan == ScanRows(data, 1, <<>>, 0, 0)
        fail(status, message) == [status |-> status, message |-> message, object |-> <<>>]
    IN  IF scan.status = "malformed"
        THEN fail("returned", MalformedMessage(item, scan.line))
        ELSE IF scan.pair_index = 0
        THEN fail("returned", MissingMessage(item))
        ELSE IF RowsEqual(data, "X Units") = {} \/ RowsEqual(data, "Y Units") = {}
        THEN fail("IndexError", "")
        ELSE IF \/ SetMin(RowsEqual(data, "X Units")) >= scan.pair_index
                \/ SetMin(RowsEqual(data, "Y Units")) >= scan.pair_index
                \/ scan.desc_index >= scan.pair_index
        THEN fail("KeyError", "")
        ELSE LET descriptive_data == Head_(data, scan.pair_index)
             IN  [status  |-> "ok",
                  message |-> "",
                  object  |->
                    [descriptive |-> DescriptionProcessing(descriptive_data, scan.desc_index),
                     pairs       |-> XYPairs(descriptive_data,
                                             SetMin(RowsEqual(data, "X Units")),
                                             SetMin(RowsEqual(data, "Y Units")),
                                             scan.pairs),
                     filename    |-> item]]

RECURSIVE FileLoopKeepsParsed(_, _, _)
\* FileLoop returning the objects parsed so far along with an error message
FileLoopKeepsParsed(files, k, DataObjects) ==
    IF k > Len(files)
    THEN [objects |-> DataObjects, message |-> "", raised |-> ""]
    ELSE LET got == ProcessItem(files[k].item, files[k].data)
         IN  IF got.status = "ok"
             THEN FileLoopKeepsParsed(files, k + 1, Append(DataObjects, got.object))
             ELSE IF got.status = "returned"
             THEN [objects |-> DataObjects, message |-> got.message, raised |-> ""]
             ELSE [objects |-> <<>>, message |-> "", raised |-> got.status]

RECURSIVE FileLoop(_, _, _)
\* the loop over file_list from item k on, DataObjects being the list so far
FileLoop(files, k, DataObjects) ==
    IF k > Len(files)
    THEN [objects |-> DataObjects, message |-> "", raised |-> ""]
    ELSE LET got == ProcessItem(files[k].item, files[k].data)
         IN  IF got.status = "ok"
             THEN FileLoop(files, k + 1, Append(DataObjects, got.object))
             ELSE IF got.status = "returned"
             THEN [objects |-> <<>>, message |-> got.message, raised |-> ""]
             ELSE [objects |-> <<>>, message |-> "", raised |-> got.status]

file_to_data_object(files) == FileLoop(files, 1, <<>>)

\* ----------------------------------------------------------------- reindex
\* the frames an ascending sort of the rows by the first column may give:
\* the rows of xy_pairs in some order with the index ascending (the order of
\* rows with equal wavelength is the sort algorithm's)
SortedFrames(xy_pairs) ==
    LET n == Len(xy_pairs.rows)
        perms == {f \in [1..n -> 1..n] : \A i, j \in 1..n : i # j => f[i] # f[j]}
    IN  {[i \in 1..n |-> <<xy_pairs.rows[f[i]][1], Num(xy_pairs.rows[f[i]][2])>>] :
            f \in {g \in perms :
                    \A i \in 1..(n - 1) :
                        xy_pairs.rows[g[i]][1] <= xy_pairs.rows[g[i + 1]][1]}}


\* ------------------------------------------------------ find_common_range
\* pandas Index.min() / Index.max(): NaN for an empty index
IndexMin(df) == IF Len(df) = 0 THEN NaN ELSE Num(SetMin(Range(Index(df))))
IndexMax(df) == IF Len(df) = 0 THEN NaN ELSE Num(SetMax(Range(Index(df))))

RECURSIVE CommonRangeLoop(_, _, _, _)
\* the loop over data_objects[1:], carrying highest_minimum and lowest_maximum
CommonRangeLoop(dos, i, highest_minimum, lowest_maximum) ==
    IF i > Len(dos) THEN <<highest_minimum, lowest_maximum>>
    ELSE CommonRangeLoop(dos, i + 1,
            IF FLess(highest_minimum, IndexMin(dos[i]))
            THEN IndexMin(dos[i]) ELSE highest_minimum,
            IF FLess(IndexMax(dos[i]), lowest_maximum)
            THEN IndexMax(dos[i]) ELSE lowest_maximum)

\* RangeResult with the test highest_minimum <= lowest_maximum
RangeResultAtMost(hl) ==
    IF ~IsNaN(hl[1]) /\ ~IsNaN(hl[2]) /\ ~FLess(hl[2], hl[1])
    THEN [kind |-> "range", min |-> hl[1][1], max |-> hl[2][1]]
    ELSE NoRange

\* the final test of find_common_range on (highest_minimum, lowest_maximum)
RangeResult(hl) ==
    IF FLess(hl[1], hl[2])
    THEN [kind |-> "range", min |-> hl[1][1], max |-> hl[2][1]]
    ELSE NoRange

find_common_range(dos) ==
    RangeResult(CommonRangeLoop(dos, 2, IndexMin(dos[1]), IndexMax(dos[1])))

\* ---------------------------------------------------------------- truncate
\* TruncateFrame with the upper bound left out, as a half-open slice would
TruncateFrameHalfOpen(df, min, max) ==
    SelectSeq(df, LAMBDA row : min <= row[1] /\ row[1] < max)

\* DataFrame.truncate(before, after) on an ascending index: the label slice
\* .loc[before:after], both ends included
TruncateFrame(df, min, max) ==
    SelectSeq(df, LAMBDA row : min <= row[1] /\ row[1] <= max)

truncate(dos, min, max) ==
    [i \in 1..Len(dos) |-> TruncateFrame(dos[i], min, max)]

\* ------------------------------------------------------------ find_max_res
RECURSIVE MaxResLoop(_, _, _, _)
\* the loop of find_max_res; pairs.size is the row count of a one-column frame
MaxResLoop(dos, i, max_pts, max_pts_index) ==
    IF i > Len(dos) THEN max_pts_index
    ELSE IF Len(dos[i]) > max_pts
         THEN MaxResLoop(dos, i + 1, Len(dos[i]), i - 1)
         ELSE MaxResLoop(dos, i + 1, max_pts, max_pts_index)

\* a 0-based index, as the code returns it
find_max_res(dos) == MaxResLoop(dos, 1, 0, 0)

\* ------------------------------------------------------------------- align
\* the values of the rows of df labelled k, in order
RowsAt(df, k) == Values(SelectSeq(df, LAMBDA row : row[1] = k))

RECURSIVE Repeat(_, _)
\* n copies of the sequence s, one after the other
Repeat(s, n) == IF n = 0 THEN <<>> ELSE s \o Repeat(s, n - 1)

\* the rows of the right frame of a join for the label k: one per pair of a
\* left row and a right row labelled k; NaN where the right frame has none;
\* the right frame's own rows where the left has none (outer join only)
JoinAt(left, right, k, how) ==
    LET nl == Len(RowsAt(left, k))
        rv == RowsAt(right, k)
        at == IF nl = 0
              THEN (IF how = "outer" THEN rv ELSE <<>>)
              ELSE (IF Len(rv) = 0 THEN Repeat(<<NaN>>, nl) ELSE Repeat(rv, nl))
    IN  [i \in 1..Len(at) |-> <<k, at[i]>>]

RECURSIVE JoinFrom(_, _, _, _)
\* the joined right frame for the labels k..MaxCoord, ascending
JoinFrom(left, right, k, how) ==
    IF k > MaxCoord THEN <<>>
    ELSE JoinAt(left, right, k, how) \o JoinFrom(left, right, k + 1, how)

\* AlignRight without the shortcut for equal indexes
AlignRightAlwaysJoin(left, right, how) == JoinFrom(left, right, 1, how)

\* the second frame returned by left.align(right, join=how, axis=0): right
\* itself when the two indexes are equal, else right reindexed to the join
AlignRight(left, right, how) ==
    IF Index(left) = Index(right) THEN right
    ELSE JoinFrom(left, right, 1, how)

\* the positions of vals holding a value
Known(vals) == {i \in 1..Len(vals) : ~IsNaN(vals[i])}

\* InterpolateAt with limit_direction='forward' (the pandas default): a gap
\* before the first known value stays missing
InterpolateAtForward(vals, p) ==
    LET known  == Known(vals)
        before == {i \in known : i < p}
        after  == {i \in known : i > p}
    IN  IF ~IsNaN(vals[p]) \/ before = {} THEN vals[p]
        ELSE IF after = {} THEN vals[SetMax(before)]
        ELSE LET i == SetMax(before)
                 j == SetMin(after)
             IN  FAdd(vals[i],
                      FMul(FSub(vals[j], vals[i]), Frac(p - i, j - i)))

\* Series.interpolate(method='linear', limit_direction='both') at position p:
\* the positions are taken as equally spaced (the index is ignored); a gap
\* before the first or after the last known value takes that value
InterpolateAt(vals, p) ==
    LET known  == Known(vals)
        before == {i \in known : i < p}
        after  == {i \in known : i > p}
    IN  IF ~IsNaN(vals[p]) \/ known = {} THEN vals[p]
        ELSE IF before = {} THEN vals[SetMin(after)]
        ELSE IF after = {} THEN vals[SetMax(before)]
        ELSE LET i == SetMax(before)
                 j == SetMin(after)
             IN  FAdd(vals[i],
                      FMul(FSub(vals[j], vals[i]), Frac(p - i, j - i)))

interpolate(df) ==
    [p \in 1..Len(df) |-> <<df[p][1], InterpolateAt(Values(df), p)>>]

\* one pass of the loop of align for the frame df
AlignOne(alignment_pairs, df) ==
    AlignRight(alignment_pairs,
               interpolate(AlignRight(alignment_pairs, df, "outer")),
               "left")

\* align_to is the 0-based index the code takes
align(dos, align_to) ==
    [i \in 1..Len(dos) |-> AlignOne(dos[align_to + 1], dos[i])]

\* ----------------------------------------------------------------- combine
\* every frame has the index of the first
Aligned(dos) == \A i \in 1..Len(dos) : Index(dos[i]) = Index(dos[1])

\* combine without the transpose: one row per wavelength, one column per record
combineUntransposed(dos) ==
    [columns |-> Index(dos[1]),
     rows    |-> [c \in 1..Len(dos[1]) |-> [i \in 1..Len(dos) |-> dos[i][c][2]]]]

\* pd.concat of the transposed frames with ignore_index=True, for frames that
\* share their index: row i (0-based in the code) is record i's value column
combine(dos) ==
    [columns |-> Index(dos[1]),
     rows    |-> [i \in 1..Len(dos) |-> Values(dos[i])]]

\* -------------------------------------------------------- linear_normalize
\* the known values of a column
KnownValues(df) == {Values(df)[i] : i \in Known(Values(df))}

FMin(S) == CHOOSE m \in S : \A x \in S : ~FLess(x, m)
FMax(S) == CHOOSE m \in S : \A x \in S : ~FLess(m, x)

\* sklearn's _handle_zeros_in_scale: a zero range scales by 1
HandleZerosInScale(range) == IF range = Num(0) THEN Num(1) ELSE range

\* MinMaxScaler.transform of df by a scaler fitted on the frame fitted:
\* X * scale_ + min_, scale_ = 1 / data_range, min_ = 0 - data_min * scale_
Transform(df, fitted) ==
    IF KnownValues(fitted) = {} THEN [p \in 1..Len(df) |-> <<df[p][1], NaN>>]
    ELSE LET data_min == FMin(KnownValues(fitted))
             data_max == FMax(KnownValues(fitted))
             scale    == FDiv(Num(1), HandleZerosInScale(FSub(data_max, data_min)))
             min_     == FSub(Num(0), FMul(data_min, scale))
         IN  [p \in 1..Len(df) |-> <<df[p][1], FAdd(FMul(df[p][2], scale), min_)>>]

\* MinMaxScaler().fit_transform on the one value column of df
FitTransform(df) == Transform(df, df)

\* the records before the first empty one (all of them when none is empty):
\* fit_transform raises ValueError on a frame without rows
FirstEmpty(dos) ==
    IF \E i \in 1..Len(dos) : Len(dos[i]) = 0
    THEN SetMin({i \in 1..Len(dos) : Len(dos[i]) = 0})
    ELSE Len(dos) + 1

\* linear_normalize with the scaler fitted once, on the first record
linear_normalize_fit_once(dos) ==
    [i \in 1..Len(dos) |-> IF i < FirstEmpty(dos) THEN Transform(dos[i], dos[1]) ELSE dos[i]]

linear_normalize(dos) ==
    [i \in 1..Len(dos) |-> IF i < FirstEmpty(dos) THEN FitTransform(dos[i]) ELSE dos[i]]


\* ---------------------------------------------------- the parser's inputs
\* the tokens of numeric-pair lines: the numbers 1..MaxTok and one word
Tokens == {Digits[k + 1] : k \in 1..MaxTok} \cup {"abc"}

PairRows == {Row(<<x, y>>, NA, NA, NA, NA) : x \in Tokens, y \in Tokens}

\* a first descriptive line: with a value, without one, with an overflow field
NameRows ==
    {Row(<<"Name">>, "Quartz", NA, NA, NA),
     Row(<<"Name">>, NA, NA, NA, NA),
     Row(<<"Name">>, "Quartz", "SiO2", NA, NA)}

\* the Description line with each of its three overflow fields there or not
DescriptionRows ==
    {Row(<<"Description">>, "Olivine", o1, o2, o3) :
        o1 \in {NA, "Fe-rich"}, o2 \in {NA, "lab sample"}, o3 \in {NA, "fine"}}

XUnitsRow == Row(<<"X Units">>, " Wavelength (micrometers)", NA, NA, NA)
YUnitsRow == Row(<<"Y Units">>, " Reflectance (percent)", NA, NA, NA)

\* the header every well-formed file of the library has
PlainHeader ==
    <<Row(<<"Name">>, "Quartz", NA, NA, NA),
      Row(<<"Description">>, "Olivine", NA, NA, NA), XUnitsRow, YUnitsRow>>

\* descriptive sections: none (the pairs start at row 0), one without the
\* unit rows, and the complete ones
Headers ==
    {<<>>, <<Row(<<"Name">>, "Quartz", NA, NA, NA)>>}
        \cup {<<n, d, XUnitsRow, YUnitsRow>> : n \in NameRows, d \in DescriptionRows}

NumericSections == SeqsUpTo(PairRows, MaxPts)

Paths == <<"a.txt", "b.txt", "c.txt", "d.txt">>

\* file lists: one file with any header, or up to MaxFiles files with the
\* plain one (a file has at least one line)
WithPaths(fl) == [k \in 1..Len(fl) |-> [item |-> Paths[k], data |-> fl[k]]]

\* the files of the model: a descriptive section, then a numeric one
Files(headers) == {h \o n : h \in headers, n \in NumericSections} \ {<<>>}

FileLists ==
    {WithPaths(<<f>>) : f \in Files(Headers)}
        \cup {WithPaths(fl) :
                fl \in {g \in SeqsUpTo(Files({PlainHeader}), MaxFiles) : Len(g) >= 2}}

NotParsed == [objects |-> <<>>, message |-> "not parsed"]

\* ------------------------------------------------------ parsing a file list
Op(name) == [op |-> name, min |-> 0, max |-> 0, align_to |-> 0]

InitParse ==
    /\ file_list \in FileLists
    /\ parsed = NotParsed
    /\ data_objects = <<>>
    /\ pre = <<>>
    /\ last = NoOp
    /\ common_range = UnsetRange
    /\ max_res = -1
    /\ data_block = NoBlock
    /\ raised = ""
    /\ steps = 0

FileToDataObject ==
    /\ last.op = "none"
    /\ parsed' = [objects |-> file_to_data_object(file_list).objects,
                  message |-> file_to_data_object(file_list).message]
    /\ raised' = file_to_data_object(file_list).raised
    /\ last' = Op("file_to_data_object")
    /\ steps' = steps + 1
    /\ UNCHANGED <<file_list, data_objects, pre, common_range, max_res, data_block>>

\* reindex(data_objects) on the list file_to_data_object returned
Reindex ==
    /\ last.op = "file_to_data_object"
    /\ raised = ""
    /\ parsed.objects # <<>>
    /\ data_objects' \in
          {dos \in [1..Len(parsed.objects) ->
                       UNION {SortedFrames(parsed.objects[i].pairs) :
                                 i \in 1..Len(parsed.objects)}] :
              \A i \in 1..Len(parsed.objects) :
                  dos[i] \in SortedFrames(parsed.objects[i].pairs)}
    /\ last' = Op("reindex")
    /\ steps' = steps + 1
    /\ UNCHANGED <<file_list, parsed, pre, common_range, max_res, data_block, raised>>

NextParse ==
    \/ FileToDataObject
    \/ Reindex

SpecParse == InitParse /\ [][NextParse]_vars

\* ------------------------------------------------- the pipeline on a batch
\* The driver holds one collection of reindexed records and calls the
\* operations on it one after the other; an exception ends the run.
Running == raised = "" /\ steps < MaxSteps

Init ==
    /\ file_list = <<>>
    /\ parsed = NotParsed
    /\ data_objects \in {dos \in SeqsUpTo(NormalizedFrames, MaxRecs) : Len(dos) >= 1}
    /\ pre = data_objects
    /\ last = NoOp
    /\ common_range = UnsetRange
    /\ max_res = -1
    /\ data_block = NoBlock
    /\ raised = ""
    /\ steps = 0

FindCommonRange ==
    /\ Running
    /\ common_range' = find_common_range(data_objects)
    /\ pre' = data_objects
    /\ last' = Op("find_common_range")
    /\ steps' = steps + 1
    /\ UNCHANGED <<file_list, parsed, data_objects, max_res, data_block, raised>>

\* truncate with a range the caller supplies, min <= max
Truncate ==
    /\ Running
    /\ \E min \in Coords, max \in Coords :
          /\ min <= max
          /\ data_objects' = truncate(data_objects, min, max)
          /\ last' = [op |-> "truncate", min |-> min, max |-> max, align_to |-> 0]
    /\ pre' = data_objects
    /\ steps' = steps + 1
    /\ UNCHANGED <<file_list, parsed, common_range, max_res, data_block, raised>>

FindMaxRes ==
    /\ Running
    /\ max_res' = find_max_res(data_objects)
    /\ pre' = data_objects
    /\ last' = Op("find_max_res")
    /\ steps' = steps + 1
    /\ UNCHANGED <<file_list, parsed, data_objects, common_range, data_block, raised>>

\* align to any record of the collection; the driver stops when a frame
\* outgrows MaxRows
Align ==
    /\ Running
    /\ \E align_to \in 0..(Len(data_objects) - 1) :
          /\ \A i \in 1..Len(data_objects) :
                Len(align(data_objects, align_to)[i]) <= MaxRows
          /\ data_objects' = align(data_objects, align_to)
          /\ last' = [op |-> "align", min |-> 0, max |-> 0, align_to |-> align_to]
    /\ pre' = data_objects
    /\ steps' = steps + 1
    /\ UNCHANGED <<file_list, parsed, common_range, max_res, data_block, raised>>

\* combine is given records that share a non-empty index
Combine ==
    /\ Running
    /\ Aligned(data_objects)
    /\ Len(data_objects[1]) > 0
    /\ data_block' = combine(data_objects)
    /\ pre' = data_objects
    /\ last' = Op("combine")
    /\ steps' = steps + 1
    /\ UNCHANGED <<file_list, parsed, data_objects, common_range, max_res, raised>>

LinearNormalize ==
    /\ Running
    /\ data_objects' = linear_normalize(data_objects)
    /\ raised' = IF FirstEmpty(data_objects) <= Len(data_objects)
                 THEN "ValueError" ELSE ""
    /\ pre' = data_objects
    /\ last' = Op("linear_normalize")
    /\ steps' = steps + 1
    /\ UNCHANGED <<file_list, parsed, common_range, max_res, data_block>>

Next ==
    \/ FindCommonRange
    \/ Truncate
    \/ FindMaxRes
    \/ Align
    \/ Combine
    \/ LinearNormalize

Spec == Init /\ [][Next]_vars


\* ------------------------------------------- the range-then-align sequence
\* The four range and alignment operations called in the order their
\* contracts assume, each on what the one before left: find_common_range,
\* truncate with the range it returned, find_max_res, align to the record
\* it chose.  Without a common range nothing further is called.
RangeStep ==
    /\ last.op = "none"
    /\ common_range' = find_common_range(data_objects)
    /\ pre' = data_objects
    /\ last' = Op("find_common_range")
    /\ steps' = steps + 1
    /\ UNCHANGED <<file_list, parsed, data_objects, max_res, data_block, raised>>

TruncateStep ==
    /\ last.op = "find_common_range"
    /\ common_range.kind = "range"
    /\ data_objects' = truncate(data_objects, common_range.min, common_range.max)
    /\ pre' = data_objects
    /\ last' = [op |-> "truncate", min |-> common_range.min,
                max |-> common_range.max, align_to |-> 0]
    /\ steps' = steps + 1
    /\ UNCHANGED <<file_list, parsed, common_range, max_res, data_block, raised>>

MaxResStep ==
    /\ last.op = "truncate"
    /\ max_res' = find_max_res(data_objects)
    /\ pre' = data_objects
    /\ last' = Op("find_max_res")
    /\ steps' = steps + 1
    /\ UNCHANGED <<file_list, parsed, data_objects, common_range, data_block, raised>>

AlignStep ==
    /\ last.op = "find_max_res"
    /\ data_objects' = align(data_objects, max_res)
    /\ pre' = data_objects
    /\ last' = [op |-> "align", min |-> 0, max |-> 0, align_to |-> max_res]
    /\ steps' = steps + 1
    /\ UNCHANGED <<file_list, parsed, common_range, max_res, data_block, raised>>

NextPipeline ==
    \/ RangeStep
    \/ TruncateStep
    \/ MaxResStep
    \/ AlignStep

SpecPipeline == Init /\ [][NextPipeline]_vars


\* ================================================================== claims
\* ---- find_common_range
HighestMinimum(dos) == SetMax({SetMin(Range(Index(dos[i]))) : i \in 1..Len(dos)})
LowestMaximum(dos)  == SetMin({SetMax(Range(Index(dos[i]))) : i \in 1..Len(dos)})

NoneEmpty(dos) == \A i \in 1..Len(dos) : Len(dos[i]) > 0

\* C1: on a collection of records that each have a point, find_common_range
\* returns (H, L), H the greatest of the records' least wavelengths and L the
\* least of their greatest wavelengths, when H < L, and the no-overlap value
\* (None, None) in every other case, H = L included.
C1_CommonRange ==
    (last.op = "find_common_range" /\ NoneEmpty(data_objects)) =>
        /\ raised = ""
        /\ common_range =
              IF HighestMinimum(data_objects) < LowestMaximum(data_objects)
              THEN [kind |-> "range", min |-> HighestMinimum(data_objects),
                    max |-> LowestMaximum(data_objects)]
              ELSE NoRange

\* find_common_range has answered "no overlap" for two records that meet in
\* exactly one wavelength
C1_Witness ==
    /\ last.op = "find_common_range"
    /\ Len(data_objects) = 2
    /\ NoneEmpty(data_objects)
    /\ HighestMinimum(data_objects) = LowestMaximum(data_objects)
    /\ \A i \in 1..2 : Len(data_objects[i]) = 2 /\ data_objects[i][1][1] < data_objects[i][2][1]
    /\ common_range = NoRange

\* ---- align
\* C2: after align every record, the reference included, has the index the
\* reference record had before the call.
C2_AlignGivesReferenceIndex ==
    last.op = "align" =>
        \A i \in 1..Len(data_objects) :
            Index(data_objects[i]) = Index(pre[last.align_to + 1])

\* C9: align on a collection whose records all have the reference's index
\* already leaves every record's wavelengths and values as they were.
C9_AlignIdempotent ==
    (last.op = "align" /\ \A i \in 1..Len(pre) : Index(pre[i]) = Index(pre[last.align_to + 1]))
        => data_objects = pre

\* a second operation was an align of two records that an earlier align had
\* put on one index (the value 1/2 is an interpolated one)
C9_Witness ==
    /\ last.op = "align"
    /\ steps = 2
    /\ Len(pre) = 2
    /\ Aligned(pre)
    /\ \E i \in 1..2 : \E p \in 1..Len(pre[i]) : pre[i][p][2] = Frac(1, 2)
    /\ data_objects = pre

\* the values a frame holds at the wavelength k
ValuesAt(df, k) == Range(RowsAt(df, k))

\* the wavelengths of a frame
Wavelengths(df) == Range(Index(df))

\* C11: align leaves a record's value at every reference wavelength the
\* record already had as it was; a reference wavelength the record lacked
\* that lies below the record's least wavelength gets the value the record
\* has there, and one above its greatest wavelength the value it has there.
C11_AlignKeepsOwnValues ==
    last.op = "align" =>
        \A i \in 1..Len(pre) : \A k \in Wavelengths(pre[last.align_to + 1]) :
            /\ k \in Wavelengths(pre[i])
                  => ValuesAt(data_objects[i], k) = ValuesAt(pre[i], k)
            /\ (pre[i] # <<>> /\ k < SetMin(Wavelengths(pre[i])))
                  => /\ ValuesAt(data_objects[i], k) # {}
                     /\ ValuesAt(data_objects[i], k)
                           \subseteq ValuesAt(pre[i], SetMin(Wavelengths(pre[i])))
            /\ (pre[i] # <<>> /\ k > SetMax(Wavelengths(pre[i])))
                  => /\ ValuesAt(data_objects[i], k) # {}
                     /\ ValuesAt(data_objects[i], k)
                           \subseteq ValuesAt(pre[i], SetMax(Wavelengths(pre[i])))

\* align has given a record of two different values the reference's two
\* wavelengths: one the record had, one below the record's least
C11_Witness ==
    /\ last.op = "align"
    /\ \E i \in 1..Len(pre) :
          LET ref == pre[last.align_to + 1]
          IN  /\ Len(ref) = 2 /\ ref[1][1] < ref[2][1]
              /\ Len(pre[i]) = 2 /\ pre[i][1][1] < pre[i][2][1]
              /\ pre[i][1][2] # pre[i][2][2]
              /\ ref[1][1] < pre[i][1][1]
              /\ ref[2][1] = pre[i][1][1]
              /\ data_objects[i] = <<<<ref[1][1], pre[i][1][2]>>, pre[i][1]>>

\* ---- find_common_range, truncate, find_max_res, align in sequence
\* C12: when find_common_range returns a range, truncate with that range
\* leaves every record at least one point, and align to the record
\* find_max_res chose then leaves every record a known value at every
\* wavelength of that record.
C12_SequenceLeavesNoMissingValue ==
    /\ last.op = "truncate" => NoneEmpty(data_objects)
    /\ (last.op = "align" /\ common_range.kind = "range") =>
          \A i \in 1..Len(data_objects) : \A k \in Wavelengths(pre[max_res + 1]) :
              /\ ValuesAt(data_objects[i], k) # {}
              /\ \A v \in ValuesAt(data_objects[i], k) : ~IsNaN(v)

\* ---- truncate
\* the positions of df whose wavelength lies in [min, max]
Within(df, min, max) == {p \in 1..Len(df) : min <= df[p][1] /\ df[p][1] <= max}

\* out is df restricted to the positions in keep, in df's order
IsRestriction(out, df, keep) ==
    /\ Len(out) = Cardinality(keep)
    /\ \A p \in keep : out[Cardinality({q \in keep : q <= p})] = df[p]

\* C6: truncate(min, max), min <= max, leaves of every sorted record exactly
\* the rows with min <= wavelength <= max, in their order and with their
\* values; truncating the result again with the same bounds changes nothing.
C6_TruncateInclusive ==
    last.op = "truncate" =>
        /\ \A i \in 1..Len(pre) :
              IsRestriction(data_objects[i], pre[i], Within(pre[i], last.min, last.max))
        /\ Len(data_objects) = Len(pre)
        /\ truncate(data_objects, last.min, last.max) = data_objects

\* a truncate has dropped a row of one record and kept rows at both bounds
C6_Witness ==
    /\ last.op = "truncate"
    /\ last.min < last.max
    /\ \E i \in 1..Len(pre) : Len(data_objects[i]) < Len(pre[i])
    /\ \E i \in 1..Len(pre) : \E p \in 1..Len(data_objects[i]) :
          data_objects[i][p][1] = last.max
    /\ \E i \in 1..Len(pre) : \E p \in 1..Len(data_objects[i]) :
          data_objects[i][p][1] = last.min

\* ---- linear_normalize
\* the least and the greatest known value of a frame with a known value
OwnMin(df) == CHOOSE m \in KnownValues(df) : \A x \in KnownValues(df) : ~FLess(x, m)
OwnMax(df) == CHOOSE m \in KnownValues(df) : \A x \in KnownValues(df) : ~FLess(m, x)

\* C8 as stated: linear_normalize maps every record's own least value to 0
\* and its own greatest value to 1, a record of equal values included.
C8_MinToZeroMaxToOne ==
    (last.op = "linear_normalize" /\ raised = "") =>
        \A i \in 1..Len(pre) : \A p \in 1..Len(pre[i]) :
            /\ (~IsNaN(pre[i][p][2]) /\ pre[i][p][2] = OwnMin(pre[i]))
                  => data_objects[i][p][2] = Num(0)
            /\ (~IsNaN(pre[i][p][2]) /\ pre[i][p][2] = OwnMax(pre[i]))
                  => data_objects[i][p][2] = Num(1)

\* C8, amended: linear_normalize maps each known value x of a record to
\* (x - min) / (max - min), min and max being that record's own least and
\* greatest value, so the least goes to 0 and the greatest to 1, when the
\* record has two different values; a record whose values are all equal
\* has every value mapped to 0.  Wavelengths and row counts are unchanged.
C8_OwnMinMaxScaling ==
    (last.op = "linear_normalize" /\ raised = "") =>
        /\ Len(data_objects) = Len(pre)
        /\ \A i \in 1..Len(pre) :
              /\ Index(data_objects[i]) = Index(pre[i])
              /\ \A p \in 1..Len(pre[i]) :
                    ~IsNaN(pre[i][p][2]) =>
                        data_objects[i][p][2] =
                            IF OwnMin(pre[i]) = OwnMax(pre[i]) THEN Num(0)
                            ELSE FDiv(FSub(pre[i][p][2], OwnMin(pre[i])),
                                      FSub(OwnMax(pre[i]), OwnMin(pre[i])))

\* linear_normalize has scaled a record whose own range differs from the
\* other record's, next to a record of equal values
C8_Witness ==
    /\ last.op = "linear_normalize"
    /\ raised = ""
    /\ Len(pre) = 2
    /\ \E i, j \in 1..2 :
          /\ KnownValues(pre[i]) # {} /\ KnownValues(pre[j]) # {}
          /\ OwnMin(pre[i]) # OwnMax(pre[i])
          /\ OwnMin(pre[i]) # OwnMin(pre[j])
          /\ OwnMin(pre[j]) = OwnMax(pre[j])
          /\ \E p \in 1..Len(pre[i]) : data_objects[i][p][2] = Num(1)
          /\ \E p \in 1..Len(pre[i]) : data_objects[i][p][2] = Num(0)

\* ---- combine
\* C10: combine of n aligned records returns n rows in record order and one
\* column per shared wavelength, row i holding record i's values in order,
\* and leaves the records as they were.
C10_CombineRows ==
    last.op = "combine" =>
        /\ Len(data_block.rows) = Len(data_objects)
        /\ data_block.columns = Index(data_objects[1])
        /\ \A i \in 1..Len(data_objects) :
              /\ Len(data_block.rows[i]) = Len(data_objects[i])
              /\ \A c \in 1..Len(data_objects[i]) :
                    /\ data_block.rows[i][c] = data_objects[i][c][2]
                    /\ data_block.columns[c] = data_objects[i][c][1]
        /\ data_objects = pre

\* combine has stacked two records of two points with different values
C10_Witness ==
    /\ last.op = "combine"
    /\ Len(data_objects) = 2
    /\ Len(data_block.columns) = 2
    /\ data_block.columns[1] < data_block.columns[2]
    /\ data_block.rows[1] # data_block.rows[2]
    /\ data_block.rows[1][1] # data_block.rows[1][2]


\* ---- file_to_data_object
\* a line with exactly two tab-separated tokens
CandidateRows(data) == {r \in 1..Len(data) : Len(data[r].toks) = 2}

\* the candidate lines with a token that is no number
MalformedRows(data) ==
    {r \in CandidateRows(data) : \E k \in 1..2 : ~IsFloat(data[r].toks[k])}

\* the malformed-pair message for the file f: its path and its first
\* malformed line, the two tokens with the tab between them
MalformedPairError(f) ==
    LET row == f.data[SetMin(MalformedRows(f.data))]
    IN  f.item \o " contains an invalid or missing value at numerical pair: "
            \o row.toks[1] \o "\t" \o row.toks[2]

Parsed == last.op = "file_to_data_object"

\* C3 as stated: when a file of the list has a malformed candidate line, the
\* call returns no records and the message naming the first such file and
\* its line, and no exception escapes.
C3_StopsAtFirstMalformedFile ==
    Parsed =>
        \A k \in 1..Len(file_list) :
            (/\ MalformedRows(file_list[k].data) # {}
             /\ \A j \in 1..(k - 1) : MalformedRows(file_list[j].data) = {})
            => /\ raised = ""
               /\ parsed = [objects |-> <<>>, message |-> MalformedPairError(file_list[k])]

\* C3, amended: when a file of the list has a malformed candidate line and
\* every file before it parses into a record, the call returns no records,
\* those of the earlier files included, and the message naming that file and
\* its first malformed line, and no exception escapes.  (A file before it
\* that fails for another reason ends the call first, with its own outcome.)
C3_MalformedAfterParsedFiles ==
    Parsed =>
        \A k \in 1..Len(file_list) :
            (/\ MalformedRows(file_list[k].data) # {}
             /\ \A j \in 1..(k - 1) :
                   ProcessItem(file_list[j].item, file_list[j].data).status = "ok")
            => /\ raised = ""
               /\ parsed = [objects |-> <<>>, message |-> MalformedPairError(file_list[k])]

\* a list of two files was parsed: the first alone gives a record, the
\* second has a good pair line and then a malformed one
C3_Witness ==
    /\ Parsed
    /\ Len(file_list) = 2
    /\ ProcessItem(file_list[1].item, file_list[1].data).status = "ok"
    /\ MalformedRows(file_list[2].data) # {}
    /\ \E r \in CandidateRows(file_list[2].data) :
          r \notin MalformedRows(file_list[2].data) /\ r < SetMin(MalformedRows(file_list[2].data))
    /\ parsed.objects = <<>>
    /\ parsed.message = MalformedPairError(file_list[2])

\* the call returned no records and the missing-data message for the path
\* item, in the spec's wording or in the code's
ReportsMissingData(item) ==
    /\ raised = ""
    /\ parsed.objects = <<>>
    /\ parsed.message \in {"Numerical coordinate pairs could not be found for " \o item,
                           "Numerical coordinate pairs could not found for " \o item}

\* C4: a file is reported with the missing-data error exactly when it has no
\* numeric-pair line; a file whose pair lines start at its first line is not.
C4_MissingDataIffNoPairLine ==
    (Parsed /\ Len(file_list) = 1) =>
        (ReportsMissingData(file_list[1].item) <=> CandidateRows(file_list[1].data) = {})

\* the value the merge rule gives a descriptive line
MergedValue(row) ==
    IF Descriptor(row) = "Description"
    THEN row.value
            \o (IF row.overflow  = NA THEN "" ELSE ": " \o row.overflow)
            \o (IF row.overflow2 = NA THEN "" ELSE ": " \o row.overflow2)
            \o (IF row.overflow3 = NA THEN "" ELSE ": " \o row.overflow3)
    ELSE row.value

\* the lines of a file before its first candidate line
DescriptiveRows(data) ==
    SubSeq(data, 1, IF CandidateRows(data) = {} THEN Len(data)
                    ELSE SetMin(CandidateRows(data)) - 1)

\* C7: in the descriptive mapping of a parsed file the Description row's
\* value is its raw value followed by ": " and each overflow field that is
\* there, in order, and every other row has its raw value; no row keeps an
\* overflow column.
C7_DescriptionMerge ==
    (Parsed /\ raised = "" /\ parsed.objects # <<>>) =>
        \A k \in 1..Len(file_list) :
            parsed.objects[k].descriptive =
                [r \in 1..Len(DescriptiveRows(file_list[k].data)) |->
                    [descriptor |-> Descriptor(file_list[k].data[r]),
                     value      |-> MergedValue(file_list[k].data[r])]]

\* ---- reindex
\* C5: after reindex every record's index is strictly increasing (no
\* wavelength twice), whatever the numeric section of the file.
C5_ReindexStrictlyIncreasing ==
    last.op = "reindex" =>
        \A i \in 1..Len(data_objects) : \A p \in 1..(Len(data_objects[i]) - 1) :
            data_objects[i][p][1] < data_objects[i][p + 1][1]

=============================================================================
